---- MODULE Spec2Model ----
(***************************************************************************)
(* fsdedupe.FS: a deduplicated file store.  Data files live in dataDir     *)
(* under the SHA-512 of their content, symlinks with caller-chosen names   *)
(* live in linkDir and point at them, new content is staged in tempDir.    *)
(*                                                                         *)
(* The host filesystem is modelled as far as FS uses it: the temp and data *)
(* directories are flat maps from base names to file contents, the link    *)
(* directory is a tree of directories and symlinks.  os.* calls fail only  *)
(* for the reasons the state of these three directories gives (no missing  *)
(* permissions, no full disk, no cross-device rename).  crypto/sha512 is   *)
(* modelled as a collision-free digest of DigestSize bytes.                *)
(***************************************************************************)
EXTENDS Naturals, Sequences, FiniteSets, TLC

\* Bounds of the model.
MaxLen == 1             \* bytes written through one write handle
MaxTime == 3            \* clock readings (one per FS call)
DigestSize == 2         \* bytes of the modelled digest

\* the bytes a caller writes ("j", "k": their hex digits include letters)
Bytes == {106, 107}

\* Caller-supplied link names, as sequences of path components: a name that
\* cleans to linkDir itself, a name climbing above it with "..", two entries
\* of one directory, and an entry two directories deep.
LinkNames ==
    { <<"a", "..">>, <<"a">>, <<"..", "b">>,
      <<"a", "a">>, <<"a", "b">>, <<"a", "b", "a">> }

------------------------------------------------------------------------------
\* Paths

\* filepath.Join(string(filepath.Separator), linkName): the name is rooted
\* and cleaned, ".." never climbs above the root.  (A leading or doubled
\* separator makes an empty component, which Clean drops like ".".)
RECURSIVE CleanFrom(_, _)
CleanFrom(acc, rest) ==
    IF rest = <<>> THEN acc
    ELSE LET c == Head(rest)
             next == IF c = "." \/ c = "" THEN acc
                     ELSE IF c = ".."
                          THEN IF acc = <<>> THEN acc
                               ELSE SubSeq(acc, 1, Len(acc) - 1)
                          ELSE Append(acc, c)
         IN  CleanFrom(next, Tail(rest))

CleanLinkName(linkName) == CleanFrom(<<>>, linkName)

\* filepath.Dir of a rooted clean path; Dir("/") = "/".
Dir(p) == IF p = <<>> THEN <<>> ELSE SubSeq(p, 1, Len(p) - 1)

IsPrefix(p, q) == Len(p) <= Len(q) /\ SubSeq(q, 1, Len(p)) = p

Prefixes(p) == {SubSeq(p, 1, i) : i \in 0..Len(p)}

ProperPrefixes(p) == Prefixes(p) \ {p}

------------------------------------------------------------------------------
\* Digest and data file names

\* sha512: a collision-free digest; the written bytes as a base-256 number.
RECURSIVE ByteValue(_)
ByteValue(bytes) ==
    IF bytes = <<>> THEN 0
    ELSE ByteValue(SubSeq(bytes, 1, Len(bytes) - 1)) * 256 + bytes[Len(bytes)]

RECURSIVE BigEndian(_, _)
BigEndian(v, n) ==
    IF n = 0 THEN <<>> ELSE Append(BigEndian(v \div 256, n - 1), v % 256)

Sum512(bytes) == BigEndian(ByteValue(bytes), DigestSize)

HexLower == <<"0", "1", "2", "3", "4", "5", "6", "7",
              "8", "9", "a", "b", "c", "d", "e", "f">>

HexUpper == <<"0", "1", "2", "3", "4", "5", "6", "7",
              "8", "9", "A", "B", "C", "D", "E", "F">>

\* fmt.Sprintf("%x", sum) with the digits of table hex
RECURSIVE Sprintf(_, _)
Sprintf(hex, sum) ==
    IF sum = <<>> THEN <<>>
    ELSE <<hex[(Head(sum) \div 16) + 1], hex[(Head(sum) % 16) + 1]>>
         \o Sprintf(hex, Tail(sum))

BinExt == <<".", "b", "i", "n">>

DataFileNameUpper(digest) == Sprintf(HexUpper, Sum512(digest)) \o BinExt

\* fmt.Sprintf("%x", f.digest.Sum(nil)) + ".bin"
DataFileName(digest) == Sprintf(HexLower, Sum512(digest)) \o BinExt

\* a path of the same base name under tempDir
AbsDataNameInTemp(base) == [dir |-> "temp", base |-> base]

\* filepath.Join(f.dataDir, base): the absolute path of a data file, which is
\* also the raw target of the symlinks to it.
AbsDataName(base) == [dir |-> "data", base |-> base]

Restrict(f, S) == [x \in S |-> f[x]]

Put(f, k, v) == [x \in DOMAIN f \cup {k} |-> IF x = k THEN v ELSE f[x]]

------------------------------------------------------------------------------
\* The host filesystem below linkDir: ds is the set of directories, ls maps
\* each symlink to its raw target, files is the set of base names in dataDir.

\* os.Lstat finds an entry
Exists(ds, ls, p) == p \in ds \/ p \in DOMAIN ls

\* the symlink at p resolves (os.Stat through it finds the data file)
TargetExists(ls, files, p) == ls[p].dir = "data" /\ ls[p].base \in files

Children(ds, ls, d) == {q \in ds \cup DOMAIN ls : q # d /\ Dir(q) = d}

\* os.MkdirAll(d): fails when a component is not a directory, and then
\* creates nothing; otherwise creates every missing component.
MkdirAllErr(ds, ls, d) ==
    IF \E q \in Prefixes(d) : q \in DOMAIN ls THEN "ENOTDIR" ELSE "nil"

MkdirAll(ds, ls, d) ==
    IF MkdirAllErr(ds, ls, d) = "nil" THEN ds \cup Prefixes(d) ELSE ds

\* os.MkdirAll(filepath.Dir(abs)) for the absolute path of link path p.  The
\* parent of linkDir itself lies outside the store and exists.
MkdirParentErr(ds, ls, p) ==
    IF p = <<>> THEN "nil" ELSE MkdirAllErr(ds, ls, Dir(p))

MkdirParent(ds, ls, p) ==
    IF p = <<>> THEN ds ELSE MkdirAll(ds, ls, Dir(p))

\* os.Symlink(target, p): never replaces an existing entry.
SymlinkErr(ds, ls, p) ==
    IF Exists(ds, ls, p) THEN "EEXIST"
    ELSE IF p # <<>> /\ Dir(p) \notin ds THEN "ENOENT"
    ELSE "nil"

Symlink(ls, target, p) ==
    [q \in DOMAIN ls \cup {p} |-> IF q = p THEN target ELSE ls[q]]

\* os.Rename(old, new): Go refuses a new name that is a directory (EEXIST)
\* once it has found old; otherwise rename(2) decides.  Renaming a symlink
\* onto itself is a successful no-op.
RenameErr(ds, ls, old, new) ==
    IF ~Exists(ds, ls, old) THEN "ENOENT"
    ELSE IF new \in ds THEN "EEXIST"
    ELSE IF old = new THEN "nil"
    ELSE IF old \in ds /\ IsPrefix(old, new) THEN "EINVAL"
    ELSE IF new \in DOMAIN ls /\ old \in ds THEN "ENOTDIR"
    ELSE IF new # <<>> /\ Dir(new) \notin ds THEN "ENOENT"
    ELSE "nil"

\* a rename that links new to what old targets and leaves old in place
RenameTreeKeepOld(ds, ls, old, new) ==
    IF old \in DOMAIN ls /\ old # new
    THEN [dirs |-> ds, links |-> Put(ls, new, ls[old])]
    ELSE [dirs |-> ds, links |-> ls]

\* a rename that loses what it moves
RenameTreeDropped(ds, ls, old, new) ==
    [dirs  |-> {q \in ds : ~IsPrefix(old, q)},
     links |-> Restrict(ls, {q \in DOMAIN ls : ~IsPrefix(old, q)})]

\* the tree after a successful os.Rename(old, new): old and everything below
\* it now lives at new, replacing what was there.
RenameTree(ds, ls, old, new) ==
    IF old = new THEN [dirs |-> ds, links |-> ls]
    ELSE LET Under(q) == IsPrefix(old, q)
             Move(q) == new \o SubSeq(q, Len(old) + 1, Len(q))
             keptD == {q \in ds : ~Under(q) /\ q # new}
             keptL == {q \in DOMAIN ls : ~Under(q) /\ q # new}
             movedL == {q \in DOMAIN ls : Under(q)}
         IN  [dirs  |-> keptD \cup {Move(q) : q \in {r \in ds : Under(r)}},
              links |-> [r \in keptL \cup {Move(q) : q \in movedL} |->
                            IF \E q \in movedL : Move(q) = r
                            THEN ls[CHOOSE q \in movedL : Move(q) = r]
                            ELSE ls[r]]]

\* os.RemoveAll(p): nil for a missing path; an error when a component of the
\* path is a symlink to a file.
RemoveAllErr(ds, ls, files, p) ==
    IF \E q \in ProperPrefixes(p) : q \in DOMAIN ls /\ TargetExists(ls, files, q)
    THEN "ENOTDIR" ELSE "nil"

RemoveAll(ds, ls, p) ==
    [dirs  |-> {q \in ds : ~IsPrefix(p, q)},
     links |-> Restrict(ls, {q \in DOMAIN ls : ~IsPrefix(p, q)})]

\* an isDirEmpty that finds every directory empty
isDirEmptyAlways(ds, ls, files, d) == [empty |-> TRUE, err |-> "nil"]

\* isDirEmpty(dir): os.Open(dir) then Readdirnames(1)
isDirEmpty(ds, ls, files, d) ==
    IF d \in ds THEN [empty |-> Children(ds, ls, d) = {}, err |-> "nil"]
    ELSE IF d \in DOMAIN ls /\ TargetExists(ls, files, d)
         THEN [empty |-> FALSE, err |-> "ENOTDIR"]
    ELSE [empty |-> FALSE, err |-> "ENOENT"]

\* cleanTree(root, dir): from dir upward, remove directories while they are
\* empty; stop at the root.  denied holds the directories the process may
\* not read: os.Open in isDirEmpty fails on them.
RECURSIVE cleanTreeDenied(_, _, _, _, _)
cleanTreeDenied(ds, ls, files, dir, denied) ==
    IF dir = <<>> THEN [dirs |-> ds, links |-> ls, err |-> "nil"]
    ELSE LET e == IF dir \in ds \cap denied
                  THEN [empty |-> FALSE, err |-> "EACCES"]
                  ELSE isDirEmpty(ds, ls, files, dir)
         IN  IF e.err # "nil" THEN [dirs |-> ds, links |-> ls, err |-> e.err]
             ELSE IF ~e.empty THEN [dirs |-> ds, links |-> ls, err |-> "nil"]
             ELSE LET t == RemoveAll(ds, ls, dir)
                  IN  cleanTreeDenied(t.dirs, t.links, files, Dir(dir), denied)

\* cleanTree where every directory can be read
cleanTree(ds, ls, files, dir) == cleanTreeDenied(ds, ls, files, dir, {})

\* a write that leaves the file as it was
WriteAtDropped(content, off, p) == content

\* a write of bytes p at offset off into a file holding content (write(2):
\* a gap past the end reads as zero bytes)
WriteAt(content, off, p) ==
    LET n == IF Len(content) > off + Len(p) THEN Len(content) ELSE off + Len(p)
    IN  [i \in 1..n |->
            IF i > off /\ i <= off + Len(p) THEN p[i - off]
            ELSE IF i <= Len(content) THEN content[i]
            ELSE 0]

------------------------------------------------------------------------------
\* State

VARIABLES
    now,        \* time.Now().UnixNano(), read by createFile
    roots,      \* which of tempDir and dataDir exist
    temp,       \* tempDir: base name (a clock reading) -> content
    data,       \* dataDir: base name -> content
    dirs,       \* linkDir: the directories (<<>> is linkDir itself)
    links,      \* linkDir: symlink -> raw target
    handles,    \* the fileWriters handed out by Create, in order
    last,       \* the call that returned last, and what it returned
    step,       \* fileWriter.Close in progress: the handle and the next line
    call,       \* a call of NewFS or of the link path computation, and its result
    text,       \* Lines: the text the reader holds
    scanner,    \* Lines: the bufio.Scanner over the reader
    results,    \* Lines: what the calls of Next returned, in order
    tree,       \* Dedupe*: the host filesystem below the directory in hand
    byHash,     \* Dedupe*: digest -> first path seen with it
    filenames,  \* DedupeSymlink: what the Iterator has yet to yield
    stack,      \* DedupeDirSymlink: the open directories of walk, innermost last
    pc,         \* Dedupe*: the line the call is at
    cur,        \* Dedupe*: the duplicate being replaced and the path it links to
    ctxDone,    \* Dedupe*: ctx.Done() is closed
    ret,        \* Dedupe*: what the call returned
    trace       \* Dedupe*: the call, the filesystem it started from, what it visited

\* the store and its handles
fsVars == <<now, roots, temp, data, dirs, links, handles, last>>

closeVars == <<step>>

callVars == <<call>>

linesVars == <<text, scanner, results>>

dedupeVars == <<tree, byHash, filenames, stack, pc, cur, ctxDone, ret, trace>>

vars == <<fsVars, closeVars, callVars, linesVars, dedupeVars>>

\* A program that is not running holds nothing.
None == <<>>

NoClose == step = None

NoCall == call = None

NoLines == text = None /\ scanner = None /\ results = None

NoDedupe ==
    /\ tree = None /\ byHash = None /\ filenames = None /\ stack = None
    /\ pc = None /\ cur = None /\ ctxDone = FALSE /\ ret = None /\ trace = None

NoBytes == <<>>

Returned(op, name, name2, err, bytes) ==
    [op |-> op, name |-> name, name2 |-> name2, err |-> err, bytes |-> bytes]

\* What a store holds after an earlier process ran Create("a/b/a"), wrote
\* the byte "j" and closed the handle.
StoredBytes == <<106>>

StoredLink == <<"a", "b", "a">>

\* the file that process left under data, and its absolute path
StoredName == Sprintf(HexLower, Sum512(StoredBytes)) \o BinExt

StoredTarget == [dir |-> "data", base |-> StoredName]

\* NewFS: nothing is created on disk, and nothing that is there is touched.
\* The directories are either all missing or hold what an earlier process
\* stored.
Init ==
    /\ now = 0
    /\ temp = <<>>
    /\ handles = <<>>
    /\ last = Returned("NewFS", <<>>, <<>>, "nil", NoBytes)
    /\ NoClose /\ NoCall /\ NoLines /\ NoDedupe
    /\ \/ /\ roots = {}
          /\ data = <<>>
          /\ dirs = {}
          /\ links = <<>>
       \/ /\ roots = {"temp", "data"}
          /\ data = Put(<<>>, StoredName, StoredBytes)
          /\ dirs = ProperPrefixes(StoredLink)
          /\ links = Put(<<>>, StoredLink, StoredTarget)

Tick == now < MaxTime /\ now' = now + 1

------------------------------------------------------------------------------
\* FS calls.  Time passes with every call; createFile reads the clock.

\* FS.Create -> createFile: a temp file named after the clock, created or
\* truncated by os.Create, and a fileWriter over it and a new digest.  The
\* clock advances by elapsed before it is read again.
CreateAt(linkName, elapsed) ==
    LET absLinkName == CleanLinkName(linkName)
        tempFileName == now
    IN  /\ now + elapsed <= MaxTime
        /\ now' = now + elapsed
        /\ roots' = roots \cup {"temp"}
        /\ temp' = Put(temp, tempFileName, <<>>)
        /\ handles' = Append(handles,
                             [tempFileName |-> tempFileName,
                              absLinkName  |-> absLinkName,
                              digest       |-> <<>>,
                              off          |-> 0,
                              closed       |-> FALSE])
        /\ last' = Returned("Create", absLinkName, <<>>, "nil", NoBytes)
        /\ UNCHANGED <<data, dirs, links>>

\* FS.Create with a clock that has advanced at the next call
Create(linkName) == CreateAt(linkName, 1)

\* fileWriter.Write, io.MultiWriter(tempFile, digest): the bytes go to the
\* temp file and then to the digest; a closed temp file takes nothing, and
\* neither does the digest then.  (A file that no longer has its name under
\* tempDir takes the bytes, but shows nothing under tempDir.)
Write(h, p) ==
    LET f == handles[h]
    IN  /\ Tick
        /\ Len(f.digest) + Len(p) <= MaxLen
        /\ IF f.closed
           THEN /\ last' = Returned("Write", f.absLinkName, <<>>, "ErrClosed", p)
                /\ UNCHANGED <<temp, handles>>
           ELSE /\ temp' = IF f.tempFileName \in DOMAIN temp
                           THEN [temp EXCEPT ![f.tempFileName] = WriteAt(@, f.off, p)]
                           ELSE temp
                /\ handles' = [handles EXCEPT ![h].digest = @ \o p,
                                              ![h].off = @ + Len(p)]
                /\ last' = Returned("Write", f.absLinkName, <<>>, "nil", p)
        /\ UNCHANGED <<roots, data, dirs, links>>

\* fileWriter.Close: close the temp file, rename it into dataDir under the
\* hex digest of what was written, ensure the link's directory, symlink.
Close(h) ==
    LET f == handles[h]
        base == DataFileName(f.digest)
        absDataName == AbsDataName(base)
        renamed == f.tempFileName \in DOMAIN temp
        mkErr == MkdirParentErr(dirs, links, f.absLinkName)
        ds1 == MkdirParent(dirs, links, f.absLinkName)
        lnErr == SymlinkErr(ds1, links, f.absLinkName)
    IN  /\ Tick
        /\ IF f.closed
           THEN /\ last' = Returned("Close", f.absLinkName, <<>>, "ErrClosed", f.digest)
                /\ UNCHANGED <<roots, temp, data, dirs, links, handles>>
           ELSE /\ handles' = [handles EXCEPT ![h].closed = TRUE]
                /\ roots' = roots \cup {"data"}
                /\ IF ~renamed
                   THEN /\ last' = Returned("Close", f.absLinkName, <<>>, "ENOENT", f.digest)
                        /\ UNCHANGED <<temp, data, dirs, links>>
                   ELSE /\ data' = Put(data, base, temp[f.tempFileName])
                        /\ temp' = Restrict(temp, DOMAIN temp \ {f.tempFileName})
                        /\ IF mkErr # "nil"
                           THEN /\ last' = Returned("Close", f.absLinkName, <<>>, mkErr, f.digest)
                                /\ UNCHANGED <<dirs, links>>
                           ELSE /\ dirs' = ds1
                                /\ IF lnErr # "nil"
                                   THEN /\ last' = Returned("Close", f.absLinkName, <<>>, lnErr, f.digest)
                                        /\ UNCHANGED links
                                   ELSE /\ links' = Symlink(links, absDataName, f.absLinkName)
                                        /\ last' = Returned("Close", f.absLinkName, <<>>, "nil", f.digest)

\* what FS.Open(linkName) and reading the stream to its end give: os.Open
\* follows the symlink.
OpenRead(ds, ls, files, p) ==
    IF p \in ds THEN [err |-> "EISDIR", bytes |-> NoBytes]
    ELSE IF p \in DOMAIN ls /\ ls[p].dir = "data" /\ ls[p].base \in DOMAIN files
         THEN [err |-> "nil", bytes |-> files[ls[p].base]]
    ELSE [err |-> "ENOENT", bytes |-> NoBytes]

\* FS.Open and io.ReadAll
Open(linkName) ==
    LET absLinkName == CleanLinkName(linkName)
        r == OpenRead(dirs, links, data, absLinkName)
    IN  /\ Tick
        /\ last' = Returned("Open", absLinkName, <<>>, r.err, r.bytes)
        /\ UNCHANGED <<roots, temp, data, dirs, links, handles>>

\* FS.Rename: ensure the new name's directory, rename, prune from the old
\* name's directory upward.  denied holds the directories under link that
\* the process may not read.
RenameDenied(oldLinkName, newLinkName, denied) ==
    LET cleanOldLinkName == CleanLinkName(oldLinkName)
        absNewLinkName == CleanLinkName(newLinkName)
        mkErr == MkdirParentErr(dirs, links, absNewLinkName)
        ds1 == MkdirParent(dirs, links, absNewLinkName)
        rnErr == RenameErr(ds1, links, cleanOldLinkName, absNewLinkName)
        t == RenameTree(ds1, links, cleanOldLinkName, absNewLinkName)
        c == cleanTreeDenied(t.dirs, t.links, DOMAIN data, Dir(cleanOldLinkName),
                             denied)
    IN  /\ Tick
        /\ IF mkErr # "nil"
           THEN /\ last' = Returned("Rename", cleanOldLinkName, absNewLinkName, mkErr, NoBytes)
                /\ UNCHANGED <<dirs, links>>
           ELSE IF rnErr # "nil"
           THEN /\ dirs' = ds1
                /\ last' = Returned("Rename", cleanOldLinkName, absNewLinkName, rnErr, NoBytes)
                /\ UNCHANGED links
           ELSE /\ dirs' = c.dirs
                /\ links' = c.links
                /\ last' = Returned("Rename", cleanOldLinkName, absNewLinkName, c.err, NoBytes)
        /\ UNCHANGED <<roots, temp, data, handles>>

\* FS.Rename in a store all of whose directories can be read
Rename(oldLinkName, newLinkName) == RenameDenied(oldLinkName, newLinkName, {})

\* a Remove that also deletes the data files of the links it removes
RemoveAlsoData(linkName) ==
    LET cleanLinkName == CleanLinkName(linkName)
        t == RemoveAll(dirs, links, cleanLinkName)
        gone == {links[q].base : q \in DOMAIN links \ DOMAIN t.links}
    IN  /\ Tick
        /\ dirs' = t.dirs
        /\ links' = t.links
        /\ data' = Restrict(data, DOMAIN data \ gone)
        /\ last' = Returned("Remove", cleanLinkName, <<>>, "nil", NoBytes)
        /\ UNCHANGED <<roots, temp, handles>>

\* FS.Remove: remove the entry and what is below it, prune from its directory
\* upward.
Remove(linkName) ==
    LET cleanLinkName == CleanLinkName(linkName)
        rmErr == RemoveAllErr(dirs, links, DOMAIN data, cleanLinkName)
        t == RemoveAll(dirs, links, cleanLinkName)
        c == cleanTree(t.dirs, t.links, DOMAIN data, Dir(cleanLinkName))
    IN  /\ Tick
        /\ IF rmErr # "nil"
           THEN /\ last' = Returned("Remove", cleanLinkName, <<>>, rmErr, NoBytes)
                /\ UNCHANGED <<dirs, links>>
           ELSE /\ dirs' = c.dirs
                /\ links' = c.links
                /\ last' = Returned("Remove", cleanLinkName, <<>>, c.err, NoBytes)
        /\ UNCHANGED <<roots, temp, data, handles>>

\* a GC that sweeps every data file
GCSweepAll ==
    /\ Tick
    /\ data' = <<>>
    /\ last' = Returned("GC", <<>>, <<>>, "nil", NoBytes)
    /\ UNCHANGED <<roots, temp, dirs, links, handles>>

\* FS.GC: errors.New("not implemented"); nothing is collected.
GC ==
    /\ Tick
    /\ last' = Returned("GC", <<>>, <<>>, "not implemented", NoBytes)
    /\ UNCHANGED <<roots, temp, data, dirs, links, handles>>

\* the calls of the store leave the package's other programs alone
OnlyFS == UNCHANGED <<closeVars, callVars, linesVars, dedupeVars>>

\* The store in use: whole calls, one after the other.
Next ==
    \/ \E linkName \in LinkNames : Create(linkName) /\ OnlyFS
    \/ \E h \in DOMAIN handles, b \in Bytes : Write(h, <<b>>) /\ OnlyFS
    \/ \E h \in DOMAIN handles : Close(h) /\ OnlyFS
    \/ \E linkName \in LinkNames : Open(linkName) /\ OnlyFS
    \/ \E oldLinkName, newLinkName \in LinkNames :
          Rename(oldLinkName, newLinkName) /\ OnlyFS
    \/ \E linkName \in LinkNames : Remove(linkName) /\ OnlyFS
    \/ GC /\ OnlyFS

Spec == Init /\ [][Next]_vars

------------------------------------------------------------------------------
\* Properties

\* the data file name of content: lowercase hex SHA-512, then ".bin"
HashName(content) == Sprintf(HexLower, Sum512(content)) \o BinExt

Resolves(p) == p \in DOMAIN links /\ TargetExists(links, DOMAIN data, p)

\* C1: read-after-write.  When Close has returned nil for a handle of
\* Create(name) through which the bytes B were written, Open(name) succeeds
\* and reading it to the end yields exactly B.
C1_ReadAfterWrite ==
    (last.op = "Close" /\ last.err = "nil")
        => OpenRead(dirs, links, data, last.name)
               = [err |-> "nil", bytes |-> last.bytes]

C1_Witness ==
    /\ last.op = "Close"
    /\ last.err = "nil"
    /\ last.bytes # <<>>
    /\ last.name \in DOMAIN links

\* C2: content addressing.  Every file under data is named by the lowercase
\* hex SHA-512 of its content plus ".bin", no two data files hold the same
\* content, links whose content is identical have the same raw target, and
\* the link a successful Close made targets the absolute path of the data
\* file named after the bytes written.
C2_ContentAddressed ==
    /\ \A base \in DOMAIN data : base = HashName(data[base])
    /\ \A b1, b2 \in DOMAIN data : data[b1] = data[b2] => b1 = b2
    /\ \A p, q \in DOMAIN links :
          (Resolves(p) /\ Resolves(q)
             /\ data[links[p].base] = data[links[q].base])
          => links[p] = links[q]
    /\ (last.op = "Close" /\ last.err = "nil")
          => links[last.name] = [dir |-> "data", base |-> HashName(last.bytes)]

C2_Witness ==
    /\ last.op = "Close"
    /\ last.err = "nil"
    /\ last.bytes # <<>>
    /\ \E p \in DOMAIN links :
          p # last.name /\ links[p] = links[last.name]
    /\ Cardinality(DOMAIN data) = 1

\* C3: GC completeness.  GC returns without error, and when it has returned
\* every file under data is the raw target of a symlink under link.
C3_GCCompleteness ==
    last.op = "GC"
        => /\ last.err = "nil"
           /\ \A base \in DOMAIN data :
                 \E p \in DOMAIN links : links[p] = AbsDataName(base)

\* C4: GC soundness.  A data file that is the raw target of a symlink before
\* GC is still there, with its content, after GC, and GC leaves the link
\* tree as it was.
C4_GCSoundness ==
    [][last'.op = "GC"
          => /\ dirs' = dirs
             /\ links' = links
             /\ \A p \in DOMAIN links :
                   Resolves(p)
                   => /\ links[p].base \in DOMAIN data'
                      /\ data'[links[p].base] = data[links[p].base]]_vars

C4_Witness ==
    /\ last.op = "GC"
    /\ \E p \in DOMAIN links : Resolves(p)

\* C5: no dangling links.  Every symlink under link has as raw target the
\* absolute path of a file that exists under data.
C5_NoDanglingLinks ==
    \A p \in DOMAIN links :
        links[p].dir = "data" /\ links[p].base \in DOMAIN data

C5_Witness ==
    /\ last.op \in {"Close", "Rename", "Remove"}
    /\ last.err = "nil"
    /\ Cardinality(DOMAIN links) = 2

\* C6: Create overwrites.  When a symlink already exists at the link path of
\* a write handle, the handle's Close returns nil and afterwards the link
\* targets the data file of the bytes written through the handle.
C6_CreateOverwrites ==
    [][\A h \in DOMAIN handles :
          (/\ ~handles[h].closed
           /\ handles'[h].closed
           /\ handles[h].absLinkName \in DOMAIN links)
          => /\ last'.err = "nil"
             /\ handles[h].absLinkName \in DOMAIN links'
             /\ links'[handles[h].absLinkName]
                    = AbsDataName(HashName(handles[h].digest))]_vars

\* C7: Rename preserves the referent.  After a successful Rename(old, new)
\* of an existing link old, the symlink at new has the raw target old had
\* before the call, and old no longer exists in the link tree.
C7_RenamePreservesReferent ==
    [][(last'.op = "Rename" /\ last'.err = "nil" /\ last'.name \in DOMAIN links)
          => /\ last'.name2 \in DOMAIN links'
             /\ links'[last'.name2] = links[last'.name]
             /\ ~Exists(dirs', links', last'.name)]_vars

\* C7 as amended: after a successful Rename(old, new) of an existing link
\* old, the symlink at new has the raw target old had before the call, and
\* old no longer exists in the link tree unless old and new name the same
\* link path.
C7_RenamePreservesReferentAmended ==
    [][(last'.op = "Rename" /\ last'.err = "nil" /\ last'.name \in DOMAIN links)
          => /\ last'.name2 \in DOMAIN links'
             /\ links'[last'.name2] = links[last'.name]
             /\ last'.name # last'.name2
                   => ~Exists(dirs', links', last'.name)]_vars

C7_Witness ==
    /\ last.op = "Rename"
    /\ last.err = "nil"
    /\ last.name # last.name2
    /\ Resolves(last.name2)
    /\ ~Exists(dirs, links, last.name)

\* C8: Remove and Rename never touch data.  Whatever their arguments and
\* whether they succeed or fail, Remove and Rename leave the files under
\* data and their contents as they were; the data file of a removed link
\* still exists after Remove.
C8_DataUntouched ==
    [][last'.op \in {"Remove", "Rename"}
          => /\ data' = data
             /\ \A p \in DOMAIN links :
                   (Resolves(p) /\ p \notin DOMAIN links')
                   => links[p].base \in DOMAIN data']_vars

C8_Witness ==
    /\ last.op = "Remove"
    /\ last.err = "nil"
    /\ last.name = StoredLink
    /\ links = <<>>
    /\ HashName(StoredBytes) \in DOMAIN data

\* C9: no empty directories.  When Close, Rename or Remove has returned nil,
\* no directory under the link root other than the root itself is empty.
C9_NoEmptyDirs ==
    (last.op \in {"Close", "Rename", "Remove"} /\ last.err = "nil")
        => \A d \in dirs \ {<<>>} : Children(dirs, links, d) # {}

\* C10: pruning idempotence.  Remove(name) of a name whose parent directory
\* is absent from the link tree returns no error and changes nothing.
C10_PruneMissingIsNoOp ==
    [][(/\ last'.op = "Remove"
        /\ last'.name # <<>>
        /\ ~Exists(dirs, links, Dir(last'.name)))
          => /\ last'.err = "nil"
             /\ dirs' = dirs
             /\ links' = links]_vars

------------------------------------------------------------------------------
\* The path a link name stands for

MaxComponents == 3      \* components of a caller's link name

\* what a caller can write between separators: a name, ".", "..", and
\* nothing (a leading, doubled or trailing separator)
Components == {"a", ".", "..", ""}

RawLinkNames == UNION {[1..n -> Components] : n \in 0..MaxComponents}

\* linkDir as NewFS stored it for an absolute, clean argument
LinkDir == <<"srv", "link">>

\* filepath.Join(s.linkDir, linkName): the name joined as it came
AbsLinkNameUnrooted(linkName) == CleanFrom(LinkDir, linkName)

\* filepath.Join(s.linkDir, filepath.Join(string(filepath.Separator),
\* linkName)): the absolute path Create, Open, Rename (twice) and Remove
\* compute and hand to the os calls
AbsLinkName(linkName) == CleanFrom(LinkDir, CleanLinkName(linkName))

FSCalls == {"Create", "Open", "Rename", "Remove"}

\* no store is constructed
NoFS ==
    /\ now = 0 /\ roots = {} /\ temp = <<>> /\ data = <<>> /\ dirs = {}
    /\ links = <<>> /\ handles = <<>> /\ last = None

InitJoin ==
    /\ NoFS /\ NoClose /\ NoLines /\ NoDedupe
    /\ \E linkName \in RawLinkNames :
          call = [fn |-> "", arg |-> linkName, returned |-> FALSE, ret |-> <<>>]

\* one of the four calls computes the path of its link name
JoinLinkName(fn) ==
    /\ ~call.returned
    /\ call' = [call EXCEPT !.fn = fn, !.returned = TRUE, !.ret = AbsLinkName(call.arg)]
    /\ UNCHANGED <<fsVars, closeVars, linesVars, dedupeVars>>

NextJoin == \E fn \in FSCalls : JoinLinkName(fn)

SpecJoin == InitJoin /\ [][NextJoin]_vars

\* C11: link-path containment.  Whatever link name the caller gives, with
\* leading or embedded ".." components or a leading separator, the absolute
\* path Create, Open, Rename and Remove act on lies inside the link root.
C11_LinkPathContained ==
    call.returned => IsPrefix(LinkDir, call.ret)

\* a name that starts with a separator and climbs with ".." twice lands on
\* an entry of the link root
C11_Witness ==
    /\ call.returned
    /\ call.arg = <<"", "..", "a">>
    /\ call.ret = LinkDir \o <<"a">>

------------------------------------------------------------------------------
\* The host filesystem as DedupeSymlink and DedupeDirSymlink see it: tree
\* maps each absolute path (a sequence of names, <<>> the directory in hand)
\* to what is there.  A name is a sequence of characters; a symlink's raw
\* target is an absolute path.

MaxFiles == 3           \* paths the Iterator yields

File(content) == [type |-> "file", content |-> content]

Directory == [type |-> "dir"]

SymlinkTo(target) == [type |-> "symlink", target |-> target]

Missing == [type |-> "none"]

\* errors: the chain of messages, outermost first; fmt.Errorf("...: %w", err)
\* puts its message in front of the error it wraps
Nil == <<>>

\* fmt.Errorf("...: %v", err): the message without the error it is about
ErrorfValue(msg, err) == <<msg>>

Errorf(msg, err) == <<msg>> \o err

\* errors.Is(err, target): err or an error it wraps is target
errorsIs(err, target) ==
    \E i \in 1..Len(err) : SubSeq(err, i, Len(err)) = target

ContextCanceled == <<"context canceled">>

\* bufio.ErrTooLong
ErrTooLong == <<"bufio.Scanner: token too long">>

\* io.EOF
EOF == <<"EOF">>

\* filepath.ErrBadPattern
ErrBadPattern == <<"syntax error in pattern">>

\* os.Lstat
Lstat(t, p) == IF p \in DOMAIN t THEN t[p] ELSE Missing

\* os.Stat, os.Open: symlinks are followed, as far as the kernel follows
\* them; a chain longer than the tree has entries is a loop
RECURSIVE FollowFrom(_, _, _)
FollowFrom(t, p, hops) ==
    IF p \notin DOMAIN t THEN [err |-> <<"ENOENT">>, node |-> Missing]
    ELSE IF t[p].type # "symlink" THEN [err |-> Nil, node |-> t[p]]
    ELSE IF hops = 0 THEN [err |-> <<"ELOOP">>, node |-> Missing]
    ELSE FollowFrom(t, t[p].target, hops - 1)

Stat(t, p) == FollowFrom(t, p, Cardinality(DOMAIN t))

\* os.Remove: a file, a symlink or an empty directory
OsRemove(t, name) ==
    IF name \notin DOMAIN t THEN [tree |-> t, err |-> <<"ENOENT">>]
    ELSE IF \E q \in DOMAIN t : q # name /\ IsPrefix(name, q)
         THEN [tree |-> t, err |-> <<"ENOTEMPTY">>]
    ELSE [tree |-> Restrict(t, DOMAIN t \ {name}), err |-> Nil]

\* os.Symlink(oldname, newname)
OsSymlink(t, oldname, newname) ==
    IF newname \in DOMAIN t THEN [tree |-> t, err |-> <<"EEXIST">>]
    ELSE IF Lstat(t, Dir(newname)).type # "dir"
         THEN [tree |-> t, err |-> <<"ENOENT">>]
    ELSE [tree |-> Put(t, newname, SymlinkTo(oldname)), err |-> Nil]

\* os.Rename(oldpath, newpath) of a file or a symlink
OsRename(t, oldpath, newpath) ==
    IF oldpath \notin DOMAIN t THEN [tree |-> t, err |-> <<"ENOENT">>]
    ELSE IF Lstat(t, newpath).type = "dir" THEN [tree |-> t, err |-> <<"EEXIST">>]
    ELSE IF Lstat(t, Dir(newpath)).type # "dir"
         THEN [tree |-> t, err |-> <<"ENOENT">>]
    ELSE IF oldpath = newpath THEN [tree |-> t, err |-> Nil]
    ELSE [tree |-> Restrict(Put(t, newpath, t[oldpath]),
                            (DOMAIN t \cup {newpath}) \ {oldpath}),
          err |-> Nil]

\* hashContents: fmt.Sprintf("%x", d.Sum(nil)) of the file's bytes
hashContents(content) == Sprintf(HexLower, Sum512(content))

\* fileHash: fmt.Sprintf("%X", digest.Sum(nil)) of the file's bytes
fileHash(content) == Sprintf(HexUpper, Sum512(content))

\* The trees the calls start from: a regular file a, an entry b that
\* duplicates it, differs from it or is a symlink to it, a directory d with
\* one file, and a hidden entry .c, a file or a directory with one file.
NameA == <<"a">>

NameB == <<"b">>

NameD == <<"d">>

NameHidden == <<".", "c">>

Dupe == <<106>>

Uniq == <<107>>

Trees ==
    { (<<>> :> Directory) @@ (<<NameA>> :> File(Dupe)) @@ (<<NameB>> :> b)
        @@ (<<NameD>> :> Directory) @@ (<<NameD, NameA>> :> da) @@ h :
        b \in {File(Dupe), File(Uniq), SymlinkTo(<<NameA>>)},
        da \in {File(Dupe), File(Uniq)},
        h \in { (<<NameHidden>> :> File(Dupe)),
                (<<NameHidden>> :> Directory)
                    @@ (<<NameHidden, NameA>> :> File(Dupe)) } }

\* the paths a caller's Iterator yields
Filenames == {<<NameA>>, <<NameB>>, <<NameD>>, <<NameD, NameA>>}

UpTo(S, n) == UNION {[1..k -> S] : k \in 0..n}

\* what the Iterator returns once it has yielded its paths: io.EOF, or (Lines
\* over a text with a line too long) another error
IteratorEnds == {EOF, ErrTooLong}

InitDedupe ==
    /\ NoFS /\ NoClose /\ NoCall /\ NoLines
    /\ tree \in Trees
    /\ byHash = <<>>
    /\ cur = None
    /\ ctxDone = FALSE
    /\ ret = Nil
    /\ stack = <<>>
    /\ \/ /\ filenames \in UpTo(Filenames, MaxFiles)
          /\ pc = "loop"
          /\ \E end \in IteratorEnds :
                trace = [fn |-> "DedupeSymlink", tree0 |-> tree, end |-> end,
                         yielded |-> <<>>, hashed |-> {}]
       \/ /\ filenames = <<>>
          /\ pc = "walk"
          /\ trace = [fn |-> "DedupeDirSymlink", tree0 |-> tree, end |-> EOF,
                      yielded |-> <<>>, hashed |-> {}]

\* the caller's context is cancelled while the call runs
Cancel ==
    /\ pc # "done"
    /\ ~ctxDone
    /\ ctxDone' = TRUE
    /\ UNCHANGED <<tree, byHash, filenames, stack, pc, cur, ret, trace>>

Returns(err) == pc' = "done" /\ ret' = err

Yield(path) == trace' = [trace EXCEPT !.yielded = Append(@, path)]

YieldHashed(path) ==
    trace' = [trace EXCEPT !.yielded = Append(@, path), !.hashed = @ \cup {path}]

------------------------------------------------------------------------------
\* DedupeSymlink

\* one turn of the loop up to the replacement: the context, the Iterator,
\* os.Stat, the digest, the lookup
DedupeSymlinkNext ==
    /\ trace.fn = "DedupeSymlink"
    /\ pc = "loop"
    /\ UNCHANGED <<tree, stack, ctxDone>>
    /\ IF ctxDone
       THEN /\ Returns(ContextCanceled)
            /\ UNCHANGED <<byHash, filenames, cur, trace>>
       ELSE IF filenames = <<>>
       THEN /\ IF errorsIs(trace.end, EOF) THEN Returns(Nil)
               ELSE Returns(ErrBadPattern)
            /\ UNCHANGED <<byHash, filenames, cur, trace>>
       ELSE LET filename == Head(filenames)
                stat == Stat(tree, filename)
            IN  /\ filenames' = Tail(filenames)
                /\ IF stat.err # Nil
                   THEN /\ Returns(Errorf("stat", stat.err))
                        /\ Yield(filename)
                        /\ UNCHANGED <<byHash, cur>>
                   ELSE IF stat.node.type # "file"
                   THEN /\ Returns(<<"not a regular file">>)
                        /\ Yield(filename)
                        /\ UNCHANGED <<byHash, cur>>
                   ELSE LET hash == hashContents(stat.node.content)
                        IN  /\ YieldHashed(filename)
                            /\ IF hash \notin DOMAIN byHash
                               THEN /\ byHash' = Put(byHash, hash, filename)
                                    /\ UNCHANGED <<pc, ret, cur>>
                               ELSE /\ cur' = [filename |-> filename,
                                               existing |-> byHash[hash]]
                                    /\ pc' = "remove"
                                    /\ UNCHANGED <<byHash, ret>>

\* os.Remove(filename)
DedupeSymlinkRemove ==
    LET r == OsRemove(tree, cur.filename)
    IN  /\ trace.fn = "DedupeSymlink"
        /\ pc = "remove"
        /\ tree' = r.tree
        /\ IF r.err # Nil
           THEN Returns(Errorf("remove", r.err)) /\ cur' = None
           ELSE pc' = "symlink" /\ UNCHANGED <<ret, cur>>
        /\ UNCHANGED <<byHash, filenames, stack, ctxDone, trace>>

\* os.Symlink(existing, filename)
DedupeSymlinkSymlink ==
    LET r == OsSymlink(tree, cur.existing, cur.filename)
    IN  /\ trace.fn = "DedupeSymlink"
        /\ pc = "symlink"
        /\ tree' = r.tree
        /\ cur' = None
        /\ IF r.err # Nil
           THEN Returns(Errorf("symlink", r.err))
           ELSE pc' = "loop" /\ UNCHANGED ret
        /\ UNCHANGED <<byHash, filenames, stack, ctxDone, trace>>

------------------------------------------------------------------------------
\* DedupeDirSymlink

\* strings.HasPrefix
HasPrefix(s, prefix) == IsPrefix(prefix, s)

\* a callback without the check for hidden entries
HiddenNever(name) == FALSE

\* strings.HasPrefix(entry.Name(), ".")
Hidden(name) == HasPrefix(name, <<".">>)

\* what dir.ReadDir has yet to return for a directory just opened
Entries(t, dir) == {p[Len(p)] : p \in {q \in DOMAIN t : q # <<>> /\ Dir(q) = dir}}

\* tmpLinkName := path + ".tmp-" + the clock reading (0 here)
TmpLinkName(path) ==
    [path EXCEPT ![Len(path)] = @ \o <<".", "t", "m", "p", "-", "0">>]

RECURSIVE RecurseInto(_, _)
RecurseInto(depth, err) ==
    IF depth = 0 THEN err
    ELSE Errorf("recurse into", RecurseInto(depth - 1, err))

\* an error of the callback as DedupeDirSymlink returns it: wrapped by walk
\* as "cb", by every walk above it as "recurse into", and as "walk"
WalkErr(depth, err) == Errorf("walk", RecurseInto(depth, Errorf("cb", err)))

\* walk(path, cb): os.Open(path), for the root and for every directory
\* the callback let through
Walk ==
    LET path == IF stack = <<>> THEN <<>> ELSE cur.filename
    IN  /\ trace.fn = "DedupeDirSymlink"
        /\ pc = "walk"
        /\ stack' = Append(stack, [path |-> path, entries |-> Entries(tree, path)])
        /\ pc' = "readdir"
        /\ cur' = None
        /\ UNCHANGED <<tree, byHash, filenames, ctxDone, ret, trace>>

\* dir.ReadDir(1) returns io.EOF: this walk returns nil, and with the
\* outermost walk DedupeDirSymlink does
WalkReturn ==
    /\ trace.fn = "DedupeDirSymlink"
    /\ pc = "readdir"
    /\ stack[Len(stack)].entries = {}
    /\ stack' = SubSeq(stack, 1, Len(stack) - 1)
    /\ IF Len(stack) = 1 THEN Returns(Nil) ELSE UNCHANGED <<pc, ret>>
    /\ UNCHANGED <<tree, byHash, filenames, cur, ctxDone, trace>>

\* dir.ReadDir(1) returns an entry, in whatever order the directory has
\* them, and the callback sees it, up to the replacement
WalkEntry(name) ==
    LET top == stack[Len(stack)]
        path == Append(top.path, name)
        entry == Lstat(tree, path)
        depth == Len(stack) - 1
    IN  /\ trace.fn = "DedupeDirSymlink"
        /\ pc = "readdir"
        /\ name \in top.entries
        /\ stack' = [stack EXCEPT ![Len(stack)].entries = @ \ {name}]
        /\ UNCHANGED <<tree, filenames, ctxDone>>
        /\ IF ctxDone
           THEN /\ Returns(WalkErr(depth, ContextCanceled))
                /\ UNCHANGED <<byHash, cur, trace>>
           ELSE IF Hidden(name)
           THEN /\ Yield(path)
                /\ UNCHANGED <<byHash, cur, pc, ret>>
           ELSE IF entry.type # "file"
           THEN /\ Yield(path)
                /\ IF entry.type = "dir"
                   THEN pc' = "walk" /\ cur' = [filename |-> path, existing |-> <<>>]
                   ELSE UNCHANGED <<pc, cur>>
                /\ UNCHANGED <<byHash, ret>>
           ELSE LET hash == fileHash(entry.content)
                IN  /\ YieldHashed(path)
                    /\ IF hash \notin DOMAIN byHash
                       THEN /\ byHash' = Put(byHash, hash, path)
                            /\ UNCHANGED <<pc, ret, cur>>
                       ELSE /\ cur' = [filename |-> path, existing |-> byHash[hash]]
                            /\ pc' = "symlink"
                            /\ UNCHANGED <<byHash, ret>>

\* os.Symlink(existing, tmpLinkName)
DedupeDirSymlinkSymlink ==
    LET r == OsSymlink(tree, cur.existing, TmpLinkName(cur.filename))
    IN  /\ trace.fn = "DedupeDirSymlink"
        /\ pc = "symlink"
        /\ tree' = r.tree
        /\ IF r.err # Nil
           THEN Returns(WalkErr(Len(stack) - 1, Errorf("symlink", r.err))) /\ cur' = None
           ELSE pc' = "remove" /\ UNCHANGED <<ret, cur>>
        /\ UNCHANGED <<byHash, filenames, stack, ctxDone, trace>>

\* os.Remove(path)
DedupeDirSymlinkRemove ==
    LET r == OsRemove(tree, cur.filename)
    IN  /\ trace.fn = "DedupeDirSymlink"
        /\ pc = "remove"
        /\ tree' = r.tree
        /\ IF r.err # Nil
           THEN Returns(WalkErr(Len(stack) - 1, Errorf("remove", r.err))) /\ cur' = None
           ELSE pc' = "rename" /\ UNCHANGED <<ret, cur>>
        /\ UNCHANGED <<byHash, filenames, stack, ctxDone, trace>>

\* os.Rename(tmpLinkName, path)
DedupeDirSymlinkRename ==
    LET r == OsRename(tree, TmpLinkName(cur.filename), cur.filename)
    IN  /\ trace.fn = "DedupeDirSymlink"
        /\ pc = "rename"
        /\ tree' = r.tree
        /\ cur' = None
        /\ IF r.err # Nil
           THEN Returns(WalkErr(Len(stack) - 1, Errorf("rename", r.err)))
           ELSE pc' = "readdir" /\ UNCHANGED ret
        /\ UNCHANGED <<byHash, filenames, stack, ctxDone, trace>>

OnlyDedupe == UNCHANGED <<fsVars, closeVars, callVars, linesVars>>

NextDedupe ==
    \/ Cancel /\ OnlyDedupe
    \/ DedupeSymlinkNext /\ OnlyDedupe
    \/ DedupeSymlinkRemove /\ OnlyDedupe
    \/ DedupeSymlinkSymlink /\ OnlyDedupe
    \/ Walk /\ OnlyDedupe
    \/ WalkReturn /\ OnlyDedupe
    \/ \E name \in {NameA, NameB, NameD, NameHidden} : WalkEntry(name) /\ OnlyDedupe
    \/ DedupeDirSymlinkSymlink /\ OnlyDedupe
    \/ DedupeDirSymlinkRemove /\ OnlyDedupe
    \/ DedupeDirSymlinkRename /\ OnlyDedupe

SpecDedupe == InitDedupe /\ [][NextDedupe]_vars

------------------------------------------------------------------------------
\* Properties of DedupeSymlink and DedupeDirSymlink

\* the bytes of the regular file at the i-th path the call took, as the
\* call found the tree
YieldedContent(i) == trace.tree0[trace.yielded[i]].content

\* the first path the call took that had the content of the i-th
FirstYielded(i) ==
    trace.yielded[CHOOSE j \in 1..i :
                      /\ YieldedContent(j) = YieldedContent(i)
                      /\ \A k \in 1..(j - 1) : YieldedContent(k) # YieldedContent(i)]

\* C12: DedupeSymlink result.  Given an iterator over paths of regular
\* files, after DedupeSymlink returns nil the first-yielded path of each
\* distinct content is still the regular file it was (so paths with unique
\* content are unchanged), and every later-yielded path with that content
\* is a symlink whose raw target is that first-yielded path.
C12_DedupeSymlinkResult ==
    ( /\ trace.fn = "DedupeSymlink"
      /\ pc = "done"
      /\ ret = Nil
      /\ \A i \in 1..Len(trace.yielded) :
            Lstat(trace.tree0, trace.yielded[i]).type = "file" )
    => \A i \in 1..Len(trace.yielded) :
          LET path == trace.yielded[i]
          IN  IF \A k \in 1..(i - 1) : YieldedContent(k) # YieldedContent(i)
              THEN Lstat(tree, path) = trace.tree0[path]
              ELSE Lstat(tree, path) = SymlinkTo(FirstYielded(i))

\* an entry whose name starts with "." or that lies below such an entry
DotPrefixed(path) == \E i \in 1..Len(path) : path[i] # <<>> /\ path[i][1] = "."

\* C14: directory-scan skipping.  DedupeDirSymlink never hashes, records as
\* first-seen or replaces an entry whose name starts with ".", never
\* descends into a dot-prefixed directory, and never hashes or replaces an
\* entry that is not a regular file: such entries are left as they are,
\* and the other directories are descended into, so that a scan that
\* returns nil has hashed every regular file outside the hidden entries.
C14_SkipsHiddenAndNonRegular ==
    trace.fn = "DedupeDirSymlink" =>
        /\ \A path \in trace.hashed :
              ~DotPrefixed(path) /\ Lstat(trace.tree0, path).type = "file"
        /\ \A hash \in DOMAIN byHash : ~DotPrefixed(byHash[hash])
        /\ cur # None =>
              /\ ~DotPrefixed(cur.filename)
              /\ pc # "walk" => Lstat(trace.tree0, cur.filename).type = "file"
        /\ \A i \in 1..Len(stack) : ~DotPrefixed(stack[i].path)
        /\ \A path \in DOMAIN trace.tree0 :
              DotPrefixed(path) \/ trace.tree0[path].type # "file"
                  => Lstat(tree, path) = trace.tree0[path]
        /\ pc = "done" /\ ret = Nil =>
              \A path \in DOMAIN trace.tree0 :
                  ~DotPrefixed(path) /\ trace.tree0[path].type = "file"
                      => path \in trace.hashed

\* a scan returned nil from a tree with a hidden directory that holds a
\* duplicate and with a symlink: the one duplicate outside was replaced
C14_Witness ==
    /\ trace.fn = "DedupeDirSymlink"
    /\ pc = "done"
    /\ ret = Nil
    /\ Lstat(tree, <<NameHidden, NameA>>) = File(Dupe)
    /\ Lstat(tree, <<NameB>>) = SymlinkTo(<<NameA>>)
    /\ Lstat(tree, <<NameD, NameA>>) = SymlinkTo(<<NameA>>)

\* C15: non-regular input is fatal for DedupeSymlink.  When the iterator
\* yields a path that is not a regular file, DedupeSymlink returns an error
\* there, having consumed no further path and changed nothing further in
\* the filesystem (the replacements made for earlier paths stay).
\* DedupeDirSymlink goes on past an entry that is not a regular file
\* without an error.
C15_NonRegularFatal ==
    [][ /\ ( /\ trace.fn = "DedupeSymlink"
             /\ pc = "loop"
             /\ ~ctxDone
             /\ filenames # <<>>
             /\ filenames' # filenames
             /\ Lstat(tree, Head(filenames)).type # "file" )
           => /\ pc' = "done"
              /\ ret' # Nil
              /\ filenames' = Tail(filenames)
              /\ tree' = tree
        /\ ( /\ trace.fn = "DedupeDirSymlink"
             /\ pc = "readdir"
             /\ ~ctxDone
             /\ Len(trace'.yielded) > Len(trace.yielded)
             /\ Lstat(tree, trace'.yielded[Len(trace'.yielded)]).type # "file" )
           => /\ pc' # "done"
              /\ tree' = tree
      ]_vars

------------------------------------------------------------------------------
\* Lines: the Iterator over the lines of a reader.  A text is a sequence of
\* runs, each a character and how often it repeats, so that a line can be
\* as long as the Scanner's buffer.

MaxRuns == 4            \* runs of the text
MaxCalls == 5           \* calls of Next

\* bufio.MaxScanTokenSize, the buffer bufio.NewScanner allows
MaxScanTokenSize == 65536

Space == " "

Newline == "\n"

Run(c, n) == [c |-> c, n |-> n]

Runs == {Run(c, n) : c \in {"j", Space}, n \in {1, MaxScanTokenSize}}
            \cup {Run(Newline, 1)}

Texts == UpTo(Runs, MaxRuns)

RECURSIVE TextLen(_)
TextLen(t) == IF t = <<>> THEN 0 ELSE Head(t).n + TextLen(Tail(t))

\* bufio.Scanner.Scan with bufio.ScanLines: the token is what precedes the
\* first newline, or at the end of the input what is left if anything is; a
\* line that fills the buffer before its newline is read ends the scan
Scan(sc) ==
    LET nl == {i \in 1..Len(sc.rest) : sc.rest[i].c = Newline}
        first == CHOOSE i \in nl : \A j \in nl : i <= j
        token == IF nl = {} THEN sc.rest ELSE SubSeq(sc.rest, 1, first - 1)
    IN  IF sc.rest = <<>> \/ sc.err # Nil
        THEN [ok |-> FALSE, token |-> <<>>, scanner |-> sc]
        ELSE IF TextLen(token) >= MaxScanTokenSize
        THEN [ok |-> FALSE, token |-> <<>>,
              scanner |-> [sc EXCEPT !.err = ErrTooLong]]
        ELSE [ok |-> TRUE, token |-> token,
              scanner |-> [sc EXCEPT !.rest = IF nl = {} THEN <<>>
                                              ELSE SubSeq(@, first + 1, Len(@))]]

RECURSIVE TrimLeft(_)
TrimLeft(line) ==
    IF line # <<>> /\ Head(line).c = Space THEN TrimLeft(Tail(line)) ELSE line

RECURSIVE TrimRight(_)
TrimRight(line) ==
    IF line # <<>> /\ line[Len(line)].c = Space
    THEN TrimRight(SubSeq(line, 1, Len(line) - 1))
    ELSE line

\* strings.TrimLeft(line, " ")
TrimSpaceLeftOnly(line) == TrimLeft(line)

\* strings.TrimSpace
TrimSpace(line) == TrimRight(TrimLeft(line))

\* lines.Next: scan on until a line is left after trimming
RECURSIVE linesNext(_)
linesNext(sc) ==
    LET s == Scan(sc)
        line == TrimSpace(s.token)
    IN  IF ~s.ok
        THEN [scanner |-> s.scanner, line |-> <<>>,
              err |-> IF s.scanner.err # Nil THEN s.scanner.err ELSE EOF]
        ELSE IF line = <<>> THEN linesNext(s.scanner)
        ELSE [scanner |-> s.scanner, line |-> line, err |-> Nil]

\* Lines(r)
InitLines ==
    /\ NoFS /\ NoClose /\ NoCall /\ NoDedupe
    /\ text \in Texts
    /\ scanner = [rest |-> text, err |-> Nil]
    /\ results = <<>>

\* a call of Next by DedupeSymlink, which stops calling at the first error
\* that is not io.EOF; other callers go on after io.EOF
CallNext ==
    LET r == linesNext(scanner)
    IN  /\ Len(results) < MaxCalls
        /\ \A i \in 1..Len(results) : results[i].err \in {Nil, EOF}
        /\ scanner' = r.scanner
        /\ results' = Append(results, [line |-> r.line, err |-> r.err])
        /\ UNCHANGED <<text, fsVars, closeVars, callVars, dedupeVars>>

NextLines == CallNext

SpecLines == InitLines /\ [][NextLines]_vars

------------------------------------------------------------------------------
\* Properties of Lines

\* where the newlines of the text are, and the k-th of them
Newlines == {i \in 1..Len(text) : text[i].c = Newline}

NthNewline(k) == CHOOSE i \in Newlines : Cardinality({j \in Newlines : j < i}) = k - 1

\* the k-th line of the text: what stands between two newlines, before the
\* first and after the last
TextLine(k) ==
    SubSeq(text,
           IF k = 1 THEN 1 ELSE NthNewline(k - 1) + 1,
           IF k = Cardinality(Newlines) + 1 THEN Len(text) ELSE NthNewline(k) - 1)

\* a line without its leading and trailing spaces
Stripped(line) ==
    LET inked == {i \in 1..Len(line) : line[i].c # Space}
    IN  IF inked = {} THEN <<>>
        ELSE SubSeq(line, CHOOSE i \in inked : \A j \in inked : i <= j,
                          CHOOSE i \in inked : \A j \in inked : j <= i)

\* the lines among the first n that are non-blank after trimming, trimmed,
\* in input order
NonBlankLines(n) ==
    SelectSeq([k \in 1..n |-> Stripped(TextLine(k))], LAMBDA line : line # <<>>)

\* the lines that fill the Scanner's buffer
LongLines ==
    {k \in 1..(Cardinality(Newlines) + 1) : TextLen(TextLine(k)) >= MaxScanTokenSize}

\* C13 as stated: for every input text, the calls of Next return exactly
\* the text's lines that are non-blank after trimming, in input order, each
\* trimmed, and once these are exhausted every further call returns io.EOF
\* and no line.
C13_LinesIterator ==
    LET expected == NonBlankLines(Cardinality(Newlines) + 1)
    IN  \A i \in 1..Len(results) :
           results[i] = IF i <= Len(expected)
                        THEN [line |-> expected[i], err |-> Nil]
                        ELSE [line |-> <<>>, err |-> EOF]

\* C13, amended: the above for every text whose lines are all shorter than
\* bufio.MaxScanTokenSize.  For a text with such a line, the calls of Next
\* return the non-blank lines before the first of them, trimmed and in
\* order, and then bufio.ErrTooLong instead of a line or io.EOF.
C13_LinesIteratorAmended ==
    IF LongLines = {}
    THEN C13_LinesIterator
    ELSE LET long == CHOOSE k \in LongLines : \A j \in LongLines : k <= j
             expected == NonBlankLines(long - 1)
         IN  \A i \in 1..Len(results) :
                results[i] = IF i <= Len(expected)
                             THEN [line |-> expected[i], err |-> Nil]
                             ELSE [line |-> <<>>, err |-> ErrTooLong]

\* a text of a blank line and an indented line: the one line comes back
\* trimmed, then io.EOF twice
C13_Witness ==
    /\ text = <<Run(Newline, 1), Run(Space, 1), Run("j", 1), Run(Newline, 1)>>
    /\ results = << [line |-> <<Run("j", 1)>>, err |-> Nil],
                    [line |-> <<>>, err |-> EOF],
                    [line |-> <<>>, err |-> EOF] >>

------------------------------------------------------------------------------
\* NewFS.  A directory path is rooted or not and has components.

Path(abs, elems) == [abs |-> abs, elems |-> elems]

\* "d", ".", "../d", "d/../../d", "/srv/d", "/srv/../d"
DirArgs ==
    { Path(FALSE, <<"d">>), Path(FALSE, <<".">>), Path(FALSE, <<"..", "d">>),
      Path(FALSE, <<"d", "..", "..", "d">>),
      Path(TRUE, <<"srv", "d">>), Path(TRUE, <<"srv", "..", "d">>) }

\* os.Getwd()
WorkingDirs == {<<"home">>, <<"home", "u">>}

\* the permissions a caller passes: none, 0755
DirPerms == {0, 493}

\* 0700
DefaultDirPerm == 448

\* filepath.Clean of a relative path: ".." stays where nothing is left to
\* drop
RECURSIVE CleanRelative(_, _)
CleanRelative(acc, rest) ==
    IF rest = <<>> THEN acc
    ELSE LET c == Head(rest)
             next == IF c = "." \/ c = "" THEN acc
                     ELSE IF c = ".." /\ acc # <<>> /\ acc[Len(acc)] # ".."
                          THEN SubSeq(acc, 1, Len(acc) - 1)
                          ELSE Append(acc, c)
         IN  CleanRelative(next, Tail(rest))

\* filepath.IsLocal: not rooted, not empty, and not leaving the directory
\* it is evaluated in
IsLocal(path) ==
    /\ ~path.abs
    /\ path.elems # <<>>
    /\ LET clean == CleanRelative(<<>>, path.elems)
       IN  clean = <<>> \/ clean[1] # ".."

\* filepath.Abs: a rooted path cleaned, any other joined to the working
\* directory
Abs(wd, path) ==
    Path(TRUE, CleanFrom(IF path.abs THEN <<>> ELSE wd, path.elems))

\* if filepath.IsLocal(dir) { dir, err = filepath.Abs(dir) }
Resolved(wd, dir) == IF IsLocal(dir) THEN Abs(wd, dir) ELSE dir

InitNewFS ==
    /\ NoFS /\ NoClose /\ NoLines /\ NoDedupe
    /\ \E tempDir, dataDir, linkDir \in DirArgs, dirPerm \in DirPerms, wd \in WorkingDirs :
          call = [fn |-> "NewFS",
                  arg |-> [tempDir |-> tempDir, dataDir |-> dataDir,
                           linkDir |-> linkDir, dirPerm |-> dirPerm, wd |-> wd],
                  returned |-> FALSE,
                  ret |-> <<>>]

\* NewFS: the three paths resolved, the permission defaulted; no os call
\* other than os.Getwd
NewFS ==
    /\ call.fn = "NewFS"
    /\ ~call.returned
    /\ call' = [call EXCEPT
                  !.returned = TRUE,
                  !.ret = [tempDir |-> Resolved(call.arg.wd, call.arg.tempDir),
                           dataDir |-> Resolved(call.arg.wd, call.arg.dataDir),
                           linkDir |-> Resolved(call.arg.wd, call.arg.linkDir),
                           dirPerm |-> IF call.arg.dirPerm = 0 THEN DefaultDirPerm
                                       ELSE call.arg.dirPerm]]
    /\ UNCHANGED <<fsVars, closeVars, linesVars, dedupeVars>>

NextNewFS == NewFS

SpecNewFS == InitNewFS /\ [][NextNewFS]_vars

\* C16: NewFS path resolution.  For every relative temp, data or link path
\* given to NewFS, those that begin with ".." or are "." included, the store
\* holds the absolute path it resolves to against the working directory at
\* construction; an absolute path is stored unchanged; a permission of 0 is
\* replaced by 0700; and NewFS creates no directory.
C16_NewFSResolves ==
    call.returned =>
        /\ \A dir \in {"tempDir", "dataDir", "linkDir"} :
              call.ret[dir] = IF call.arg[dir].abs THEN call.arg[dir]
                              ELSE Path(TRUE, CleanFrom(call.arg.wd, call.arg[dir].elems))
        /\ call.ret.dirPerm = IF call.arg.dirPerm = 0 THEN 448 ELSE call.arg.dirPerm
        /\ roots = {} /\ dirs = {}

------------------------------------------------------------------------------
\* fileWriter.Close, statement by statement

\* a Close that publishes the link before the data file is in place
AfterLinkFirst(line) ==
    CASE line = "tempFile.Close"    -> "MkdirAll(dataDir)"
      [] line = "MkdirAll(dataDir)" -> "MkdirAll(linkDir)"
      [] line = "MkdirAll(linkDir)" -> "Symlink"
      [] line = "Symlink"           -> "Rename"
      [] line = "Rename"            -> "return"

\* the statement Close goes on to when line has succeeded
After(line) ==
    CASE line = "tempFile.Close"    -> "MkdirAll(dataDir)"
      [] line = "MkdirAll(dataDir)" -> "Rename"
      [] line = "Rename"            -> "MkdirAll(linkDir)"
      [] line = "MkdirAll(linkDir)" -> "Symlink"
      [] line = "Symlink"           -> "return"

\* the statement at hand succeeded
Proceed(line) ==
    step' = [step EXCEPT !.pc = After(line), !.done = Append(@, line)]

\* if err != nil { return fmt.Errorf(...) }
Fail(err) == step' = [step EXCEPT !.pc = "return", !.err = err]

At(line) == step # None /\ step.pc = line

\* a caller calls Close on a handle
CloseCall(h) ==
    /\ step = None
    /\ Tick
    /\ step' = [h |-> h, pc |-> "tempFile.Close", done |-> <<>>, err |-> "nil"]
    /\ UNCHANGED <<roots, temp, data, dirs, links, handles, last>>

\* f.tempFile.Close(): os.ErrClosed for a file that is closed
CloseTempFile ==
    /\ At("tempFile.Close")
    /\ IF handles[step.h].closed
       THEN Fail("ErrClosed") /\ UNCHANGED handles
       ELSE /\ handles' = [handles EXCEPT ![step.h].closed = TRUE]
            /\ Proceed("tempFile.Close")
    /\ UNCHANGED <<now, roots, temp, data, dirs, links, last>>

\* os.MkdirAll(filepath.Dir(absDataName), f.dirPerm)
CloseMkdirData ==
    /\ At("MkdirAll(dataDir)")
    /\ roots' = roots \cup {"data"}
    /\ Proceed("MkdirAll(dataDir)")
    /\ UNCHANGED <<now, temp, data, dirs, links, handles, last>>

\* os.Rename(f.tempFileName, absDataName)
CloseRename ==
    LET f == handles[step.h]
    IN  /\ At("Rename")
        /\ IF f.tempFileName \in DOMAIN temp /\ "data" \in roots
           THEN /\ data' = Put(data, DataFileName(f.digest), temp[f.tempFileName])
                /\ temp' = Restrict(temp, DOMAIN temp \ {f.tempFileName})
                /\ Proceed("Rename")
           ELSE Fail("ENOENT") /\ UNCHANGED <<temp, data>>
        /\ UNCHANGED <<now, roots, dirs, links, handles, last>>

\* os.MkdirAll(filepath.Dir(f.absLinkName), f.dirPerm)
CloseMkdirLink ==
    LET f == handles[step.h]
        mkErr == MkdirParentErr(dirs, links, f.absLinkName)
    IN  /\ At("MkdirAll(linkDir)")
        /\ IF mkErr = "nil"
           THEN /\ dirs' = MkdirParent(dirs, links, f.absLinkName)
                /\ Proceed("MkdirAll(linkDir)")
           ELSE Fail(mkErr) /\ UNCHANGED dirs
        /\ UNCHANGED <<now, roots, temp, data, links, handles, last>>

\* os.Symlink(absDataName, f.absLinkName)
CloseSymlink ==
    LET f == handles[step.h]
        lnErr == SymlinkErr(dirs, links, f.absLinkName)
    IN  /\ At("Symlink")
        /\ IF lnErr = "nil"
           THEN /\ links' = Symlink(links, AbsDataName(DataFileName(f.digest)),
                                    f.absLinkName)
                /\ Proceed("Symlink")
           ELSE Fail(lnErr) /\ UNCHANGED links
        /\ UNCHANGED <<now, roots, temp, data, dirs, handles, last>>

\* Close returns to its caller
CloseReturn ==
    LET f == handles[step.h]
    IN  /\ At("return")
        /\ last' = Returned("Close", f.absLinkName, <<>>, step.err, f.digest)
        /\ step' = None
        /\ UNCHANGED <<now, roots, temp, data, dirs, links, handles>>

\* a Close in progress leaves the package's other programs alone
OnlyClose == UNCHANGED <<callVars, linesVars, dedupeVars>>

\* Handles are created, written and closed one call after the other; a
\* Close is seen between each two of its statements.
NextClose ==
    \/ \E linkName \in LinkNames : step = None /\ Create(linkName) /\ OnlyFS
    \/ \E h \in DOMAIN handles, b \in Bytes : step = None /\ Write(h, <<b>>) /\ OnlyFS
    \/ \E h \in DOMAIN handles : CloseCall(h) /\ OnlyClose
    \/ CloseTempFile /\ OnlyClose
    \/ CloseMkdirData /\ OnlyClose
    \/ CloseRename /\ OnlyClose
    \/ CloseMkdirLink /\ OnlyClose
    \/ CloseSymlink /\ OnlyClose
    \/ CloseReturn /\ OnlyClose

SpecClose == Init /\ [][NextClose]_vars

\* C17: Close commit order.  In every execution of Close, failing ones
\* included, the temp file is closed before it is renamed into data and it
\* is renamed before the symlink is made; at every state of the execution a
\* symlink at the handle's link path has a target that exists under data;
\* once the rename has happened the temp file is gone from temp; and the
\* symlink the execution made targets the data file of the bytes written.
C17_CloseCommitOrder ==
    step # None =>
        LET f == handles[step.h]
            Named(line) == line \in {"tempFile.Close", "Rename", "Symlink"}
        IN  /\ IsPrefix(SelectSeq(step.done, Named),
                        <<"tempFile.Close", "Rename", "Symlink">>)
            /\ f.absLinkName \in DOMAIN links
                  => TargetExists(links, DOMAIN data, f.absLinkName)
            /\ (\E i \in DOMAIN step.done : step.done[i] = "Rename")
                  => f.tempFileName \notin DOMAIN temp
            /\ (\E i \in DOMAIN step.done : step.done[i] = "Symlink")
                  => /\ f.absLinkName \in DOMAIN links
                     /\ links[f.absLinkName] = AbsDataName(HashName(f.digest))
                     /\ HashName(f.digest) \in DOMAIN data

\* a Close that failed at its last step, on a link path that is taken, after
\* its data file was put in place
C17_Witness ==
    /\ step # None
    /\ step.pc = "return"
    /\ step.err = "EEXIST"
    /\ \E i \in DOMAIN step.done : step.done[i] = "Rename"
    /\ handles[step.h].digest # <<>>
    /\ HashName(handles[step.h].digest) \in DOMAIN data
    /\ handles[step.h].tempFileName \notin DOMAIN temp

------------------------------------------------------------------------------
\* Pruning, seen from the calls that prune

\* the entry a Rename or Remove names, and what lies below it
InNamed(name, q) == IsPrefix(name, q)

\* the directories cleanTree examines at most: from the name's directory
\* upward, short of the link root
Examined(name) == ProperPrefixes(name) \ {<<>>}

\* C18: pruning removes only empty directories.  Whatever a Rename or Remove
\* returns: every link outside the entry it names (for Rename also outside
\* the new name) is still there with its target; a directory it deletes
\* outside the named entry is an ancestor of the name other than the link
\* root, and nothing is left below it, so it was empty when it was examined;
\* the link root is deleted only when it is itself the named entry.  When
\* the call returns nil, every ancestor of the name that is still there is
\* not empty: pruning went on until the first non-empty directory.
C18_PruneOnlyEmpty ==
    [][last'.op \in {"Rename", "Remove"}
          => LET name == last'.name
                 replaced == IF last'.op = "Rename" THEN {last'.name2} ELSE {}
             IN  /\ \A q \in DOMAIN links :
                       (~InNamed(name, q) /\ q \notin replaced)
                       => q \in DOMAIN links' /\ links'[q] = links[q]
                 /\ \A d \in dirs \ dirs' :
                       ~InNamed(name, d)
                       => /\ d \in Examined(name)
                          /\ \A q \in dirs' \cup DOMAIN links' : ~IsPrefix(d, q)
                 /\ (name # <<>> /\ <<>> \in dirs) => <<>> \in dirs'
                 /\ last'.err = "nil"
                       => \A d \in Examined(name) \cap dirs' :
                             Children(dirs', links', d) # {}]_vars

\* Remove of the stored link a/b/a has pruned a/b and stopped at a, which
\* holds another link
C18_Witness ==
    /\ last.op = "Remove"
    /\ last.err = "nil"
    /\ last.name = StoredLink
    /\ <<"a", "b">> \notin dirs
    /\ <<"a">> \in dirs
    /\ <<"a", "a">> \in DOMAIN links
    /\ <<>> \in dirs


\* C19: in-place replacement is atomic.  While DedupeDirSymlink replaces a
\* duplicate, between any two of its filesystem steps the duplicate's path
\* is there: the regular file it was, or the symlink to the first-seen
\* file.
C19_ReplacementAtomic ==
    (trace.fn = "DedupeDirSymlink" /\ pc \in {"symlink", "remove", "rename"})
        => \/ Lstat(tree, cur.filename) = trace.tree0[cur.filename]
           \/ Lstat(tree, cur.filename) = SymlinkTo(cur.existing)


\* the call starts no entry in this step
StartsNoEntry == trace'.yielded = trace.yielded /\ byHash' = byHash

\* this step changes nothing but the path of the entry being replaced and
\* its temp name
MutatesOnlyInProgress ==
    \A p \in DOMAIN tree \cup DOMAIN tree' :
        Lstat(tree', p) # Lstat(tree, p)
        => /\ pc \in {"remove", "symlink", "rename"}
           /\ p \in {cur.filename, TmpLinkName(cur.filename)}

\* the call returns in this step
ReturnsNow == pc # "done" /\ pc' = "done"

------------------------------------------------------------------------------
\* The store with directories that cannot be read

\* the directories that may lack the read permission (made with a dirPerm
\* without it, or changed from outside): os.Open fails on them with EACCES
Deniable == ProperPrefixes(StoredLink) \ {<<>>}

\* the names used below the stored link's directories: two entries of a, one
\* of them the directory a/b, and the stored link a/b/a
LinkNamesBelow == {<<"a", "a">>, <<"a", "b">>, <<"a", "b", "a">>}

\* Links are made (of the empty file) and renamed.
NextDenied ==
    \/ \E linkName \in LinkNamesBelow : Create(linkName) /\ OnlyFS
    \/ \E h \in DOMAIN handles : Close(h) /\ OnlyFS
    \/ \E oldLinkName, newLinkName \in LinkNamesBelow, denied \in SUBSET Deniable :
          RenameDenied(oldLinkName, newLinkName, denied) /\ OnlyFS

SpecDenied == Init /\ [][NextDenied]_vars

\* os.MkdirAll and os.Rename of Rename(old, new) both succeed from this state
RenameStepSucceeds(old, new) ==
    /\ MkdirParentErr(dirs, links, new) = "nil"
    /\ RenameErr(MkdirParent(dirs, links, new), links, old, new) = "nil"

\* C21: Rename is not rolled back by a pruning failure.  When the rename
\* step of Rename(old, new) succeeded and Rename returns an error, which is
\* then the error of pruning, every link that was at or below old is at the
\* same place at or below new with the target it had, and nothing is left
\* at or below old.
C21_RenameNotRolledBack ==
    [][(/\ last'.op = "Rename"
        /\ last'.err # "nil"
        /\ RenameStepSucceeds(last'.name, last'.name2))
          => LET old == last'.name
                 new == last'.name2
                 Moved(q) == new \o SubSeq(q, Len(old) + 1, Len(q))
             IN  /\ \A q \in DOMAIN links :
                       IsPrefix(old, q)
                       => /\ Moved(q) \in DOMAIN links'
                          /\ links'[Moved(q)] = links[q]
                 /\ \A q \in dirs' \cup DOMAIN links' : ~IsPrefix(old, q)]_vars

\* C21 as amended: when the rename step of Rename(old, new) succeeded and
\* Rename returns the error of pruning, every link that was at or below old
\* is at the same place at or below new with the target it had, and nothing
\* is left at or below old unless old and new name the same path.
C21_RenameNotRolledBackAmended ==
    [][(/\ last'.op = "Rename"
        /\ last'.err # "nil"
        /\ RenameStepSucceeds(last'.name, last'.name2))
          => LET old == last'.name
                 new == last'.name2
                 Moved(q) == new \o SubSeq(q, Len(old) + 1, Len(q))
             IN  /\ \A q \in DOMAIN links :
                       IsPrefix(old, q)
                       => /\ Moved(q) \in DOMAIN links'
                          /\ links'[Moved(q)] = links[q]
                 /\ old # new
                       => \A q \in dirs' \cup DOMAIN links' : ~IsPrefix(old, q)]_vars

\* Rename of the stored link a/b/a to a/a returned the error of pruning:
\* the link is at a/a with its target, a/b/a is gone, a/b is still there
C21_Witness ==
    /\ last.op = "Rename"
    /\ last.err = "EACCES"
    /\ last.name = StoredLink
    /\ last.name2 = <<"a", "a">>
    /\ last.name2 \in DOMAIN links
    /\ links[last.name2] = StoredTarget
    /\ ~Exists(dirs, links, StoredLink)
    /\ <<"a", "b">> \in dirs

------------------------------------------------------------------------------
\* The store with a clock that may stand still

MaxHandles == 2         \* write handles made while the clock may stand still

\* Two callers make handles for different links, write, and then close.
\* time.Now().UnixNano() may return to the second Create what it returned
\* to the first.
NextClock ==
    \/ \E linkName \in {<<"a">>, <<"..", "b">>}, elapsed \in {0, 1} :
          /\ Len(handles) < MaxHandles
          /\ \A h \in DOMAIN handles : handles[h].absLinkName # CleanLinkName(linkName)
          /\ CreateAt(linkName, elapsed)
          /\ OnlyFS
    \/ \E h \in DOMAIN handles, b \in Bytes :
          /\ \A k \in DOMAIN handles : ~handles[k].closed
          /\ Write(h, <<b>>)
          /\ OnlyFS
    \/ \E h \in DOMAIN handles : Close(h) /\ OnlyFS

SpecClock == Init /\ [][NextClock]_vars

\* C22: unique temp files.  Any two write handles that are open at the same
\* time have different temp files, and when handles for different link
\* names were made, written and closed, the link of a Close that returned
\* nil reads back exactly the bytes written through its handle.
C22_UniqueTempFiles ==
    /\ \A h, k \in DOMAIN handles :
          (h # k /\ ~handles[h].closed /\ ~handles[k].closed)
          => handles[h].tempFileName # handles[k].tempFileName
    /\ \A h \in DOMAIN handles :
          (handles[h].closed /\ Resolves(handles[h].absLinkName))
          => data[links[handles[h].absLinkName].base] = handles[h].digest


\* C23: iterator failures are surfaced.  When the Iterator's Next returns an
\* error that is not io.EOF, DedupeSymlink returns an error that is or
\* wraps that error.
C23_IteratorErrorSurfaced ==
    [][(/\ trace.fn = "DedupeSymlink"
        /\ pc = "loop"
        /\ ~ctxDone
        /\ filenames = <<>>
        /\ ~errorsIs(trace.end, EOF)
        /\ pc' = "done")
          => errorsIs(ret', trace.end)]_vars


\* C24: DedupeSymlink never loses content.  When DedupeSymlink has returned
\* from a sequence of paths to regular files, every path it was given
\* resolves, following symlinks, to a regular file with the content the
\* path had before the call.
C24_NoContentLost ==
    ( /\ trace.fn = "DedupeSymlink"
      /\ pc = "done"
      /\ \A i \in 1..Len(trace.yielded) :
            Lstat(trace.tree0, trace.yielded[i]).type = "file" )
    => \A i \in 1..Len(trace.yielded) :
          LET stat == Stat(tree, trace.yielded[i])
          IN  /\ stat.err = Nil
              /\ stat.node = trace.tree0[trace.yielded[i]]


\* os.MkdirAll of Rename(old, new) succeeds from this state and os.Rename
\* fails
RenameStepFails(old, new) ==
    /\ MkdirParentErr(dirs, links, new) = "nil"
    /\ RenameErr(MkdirParent(dirs, links, new), links, old, new) # "nil"

\* C25: a failed Rename changes nothing.  When Rename(old, new) returns the
\* error of its rename step, the directories and links under link are what
\* they were before the call.
C25_FailedRenameChangesNothing ==
    [][(last'.op = "Rename" /\ RenameStepFails(last'.name, last'.name2))
          => /\ last'.err # "nil"
             /\ dirs' = dirs
             /\ links' = links]_vars


\* C26: the link root survives every operation.  Whatever the link names,
\* those that clean to the root included, a Remove or Rename leaves the
\* link root directory in place, and every link that is neither at or
\* below the named entry nor at the new name of a Rename stays where it is.
C26_RootSurvives ==
    [][last'.op \in {"Remove", "Rename"}
          => /\ <<>> \in dirs => <<>> \in dirs'
             /\ \A q \in DOMAIN links :
                   (/\ ~IsPrefix(last'.name, q)
                    /\ last'.op = "Rename" => q # last'.name2)
                   => q \in DOMAIN links' /\ links'[q] = links[q]]_vars

==============================================================================
